---------------------------- MODULE Spec2Model ----------------------------
(***************************************************************************)
(* A model of BeatDetect (src/unnamed/part_001): the analysis pipeline     *)
(* getBeatInfo (fetch, decode/render, process) with its numeric stages     *)
(* _getPeaks, _getIntervals and _getOffsets, and the tap-tempo tracker     *)
(* _tapBpm with its idle-reset timer.                                      *)
(*                                                                         *)
(* Numbers.  Samples and volumes are integers in hundredths (0.01), so the *)
(* literal 0.02 of _getOffsets is 2.  A tempo is an integer in units of    *)
(* 1/TempoScale BPM, which is exact because _getIntervals rounds every     *)
(* tempo to that precision.  Times inside _getOffsets are integers in      *)
(* units of 1/(sampleRate * bpm) seconds, in which both position /         *)
(* sampleRate and 60 / bpm are whole numbers.  IEEE-754 rounding error is  *)
(* not modelled: the arithmetic is that of the rationals.                  *)
(***************************************************************************)
EXTENDS Integers, Sequences, FiniteSets, TLC

VARIABLES
  \* configuration set by the constructor (part_001:155-163)
  sampleRate, round, float, bpmRange, timeSignature,
  \* one getBeatInfo invocation
  pc, promise, settleCalls, stages, failed,
  dataL, dataR, windowPeaks, peaks, groups, offsets, beatInfo,
  \* the tap-tempo session (part_001:127-137) and its environment
  count, ts, tapResetId, timers, nextTimerId, now,
  \* history of the session: the taps since the last reset, what the last tap
  \* and the last callback delivered, the resets fired since the last tap
  taps, lastTap, callback, resets, lastReset,
  \* one call of _getLowestTimeOffset (part_001:458-474): where it is, its
  \* arguments and its local variable offset
  ltoPc, ltoPosition, ltoBpm, ltoOffset

cfgVars == <<sampleRate, round, float, bpmRange, timeSignature>>
pipeVars == <<pc, promise, settleCalls, stages, failed,
              dataL, dataR, windowPeaks, peaks, groups, offsets, beatInfo>>
tapVars == <<count, ts, tapResetId, timers, nextTimerId, now,
             taps, lastTap, callback, resets, lastReset>>
ltoVars == <<ltoPc, ltoPosition, ltoBpm, ltoOffset>>
vars == <<cfgVars, pipeVars, tapVars, ltoVars>>

---------------------------------------------------------------------------
(* Bounds of the model *)

\* longest rendered buffer, in samples
MaxLen == 7
\* most non-zero samples in the left channel of a rendered buffer
MaxImpulses == 2
\* the clock of the tap-tempo model: it advances by TickMs up to MaxTime
TickMs == 1000
MaxTime == 13000
\* most taps of one tap-tempo session
MaxTaps == 3
\* the positions handed to _getLowestTimeOffset are -MaxPosition..MaxPosition
MaxPosition == 6
\* the time signatures of the _getLowestTimeOffset model are 1..MaxSignature
MaxSignature == 4

---------------------------------------------------------------------------
(* Arithmetic helpers *)

Abs(x) == IF x < 0 THEN -x ELSE x

Max2(a, b) == IF a >= b THEN a ELSE b

RECURSIVE Pow10(_)
Pow10(p) == IF p = 0 THEN 1 ELSE 10 * Pow10(p - 1)

\* Math.round(num / den) for den > 0: the nearest integer, halves upward
MathRound(num, den) == (2 * num + den) \div (2 * den)

\* _floatRound(num / den, precision), in units of 10^-precision
FloatRound(num, den, precision) == MathRound(num * Pow10(precision), den)

\* the unit of a stored tempo: Math.round gives integers, _floatRound
\* multiples of 10^-float
TempoScale == IF round THEN 1 ELSE Pow10(float)

---------------------------------------------------------------------------
(* _getPeaks *)

partSize == sampleRate \div 2

\* NumParts with the fraction floored: "parts = Math.floor(length / partSize)"
NumPartsFloor(len) == len \div partSize

\* the number of iterations of "for (i = 0; i < parts; ++i)" with
\* parts = length / partSize, a fraction: i runs while i * partSize < length
NumParts(len) == (len + partSize - 1) \div partSize

\* the inner loop of _getPeaks over j in [j, end): a read at j >= length
\* gives undefined, Math.abs gives NaN and "NaN > max.volume" is false
RECURSIVE ScanStereo(_, _, _, _, _)
ScanStereo(L, R, j, end, max) ==
  IF j >= end THEN max
  ELSE IF j >= Len(L) THEN ScanStereo(L, R, j + 1, end, max)
  ELSE LET volume == Max2(Abs(L[j + 1]), Abs(R[j + 1]))
       IN  ScanStereo(L, R, j + 1, end,
             IF volume > max.volume
               THEN [position |-> j, volume |-> volume]
               ELSE max)

\* one peak per window, in window order (part_001:354-363)
StereoWindowPeaks(L, R) ==
  [i \in 1..NumParts(Len(L)) |->
     ScanStereo(L, R, (i - 1) * partSize, i * partSize,
                [position |-> 0, volume |-> 0])]

\* the sample indices the loops of _getPeaks read
ReadIndices(len) == 0..(NumParts(len) * partSize - 1)

\* Array.prototype.sort is stable: insert x after the elements that do not
\* sort behind it
RECURSIVE InsertByVolumeDesc(_, _)
InsertByVolumeDesc(s, x) ==
  IF s = <<>> THEN <<x>>
  ELSE IF Head(s).volume >= x.volume
         THEN <<Head(s)>> \o InsertByVolumeDesc(Tail(s), x)
         ELSE <<x>> \o s

RECURSIVE SortByVolumeDesc(_)
SortByVolumeDesc(s) ==
  IF s = <<>> THEN <<>>
  ELSE InsertByVolumeDesc(SortByVolumeDesc(SubSeq(s, 1, Len(s) - 1)), s[Len(s)])

RECURSIVE InsertByPositionAsc(_, _)
InsertByPositionAsc(s, x) ==
  IF s = <<>> THEN <<x>>
  ELSE IF Head(s).position <= x.position
         THEN <<Head(s)>> \o InsertByPositionAsc(Tail(s), x)
         ELSE <<x>> \o s

RECURSIVE SortByPositionAsc(_)
SortByPositionAsc(s) ==
  IF s = <<>> THEN <<>>
  ELSE InsertByPositionAsc(SortByPositionAsc(SubSeq(s, 1, Len(s) - 1)), s[Len(s)])

\* KeepCount with a floor of one peak
KeepCountAtLeastOne(n) == IF n \div 2 = 0 /\ n > 0 THEN 1 ELSE n \div 2

\* the deleteCount of peaks.splice(0, peaks.length * 0.5): the fraction is
\* truncated to an integer
KeepCount(n) == n \div 2

\* part_001:365-369
FilterPeaks(all) ==
  SortByPositionAsc(SubSeq(SortByVolumeDesc(all), 1, KeepCount(Len(all))))

GetPeaks(L, R) == FilterPeaks(StereoWindowPeaks(L, R))

---------------------------------------------------------------------------
(* _getIntervals *)

\* "while (group.tempo <= this._bpmRange[0]) group.tempo *= 2" on num / den
RECURSIVE FoldUp(_, _)
FoldUp(num, den) ==
  IF num <= bpmRange[1] * den THEN FoldUp(2 * num, den) ELSE <<num, den>>

\* "while (group.tempo > this._bpmRange[1]) group.tempo /= 2"
RECURSIVE FoldDown(_, _)
FoldDown(num, den) ==
  IF num > bpmRange[2] * den THEN FoldDown(num, 2 * den) ELSE <<num, den>>

\* FoldedTempo without the halving loop of part_001:387
FoldedTempoNoHalving(gap) == FoldUp(60 * sampleRate, gap)

\* the folded tempo 60 * sampleRate / gap as a fraction, for gap > 0
FoldedTempo(gap) ==
  LET up == FoldUp(60 * sampleRate, gap) IN FoldDown(up[1], up[2])

\* the tempo stored in the group, in units of 1 / TempoScale (part_001:389-391)
GroupTempo(gap) ==
  LET t == FoldedTempo(gap)
  IN  IF round THEN MathRound(t[1], t[2]) ELSE FloatRound(t[1], t[2], float)

\* the (index, i) pairs of the two loops, in the order they run (0-based
\* index, part_001:375-376)
RECURSIVE PairsFrom(_, _, _)
PairsFrom(n, index, i) ==
  IF index >= n THEN <<>>
  ELSE IF index + i < n /\ i < 10
         THEN <<<<index, i>>>> \o PairsFrom(n, index, i + 1)
         ELSE PairsFrom(n, index + 1, 1)

\* groups.some(...): the first group of this tempo gets the vote, else a new
\* group is pushed (part_001:393-402)
RECURSIVE VoteInto(_, _, _, _)
VoteInto(gs, k, group, peak) ==
  IF k > Len(gs) THEN Append(gs, group)
  ELSE IF gs[k].tempo = group.tempo
         THEN [gs EXCEPT ![k] = [@ EXCEPT !.peaks = Append(@, peak),
                                          !.count = @ + 1]]
         ELSE VoteInto(gs, k + 1, group, peak)

\* a gap of 0 makes the tempo Infinity: "Infinity > max" stays true and
\* Infinity / 2 is Infinity, so the second while loop never ends
IntervalsDiverge(ps) ==
  LET pairs == PairsFrom(Len(ps), 0, 1)
  IN  \E k \in 1..Len(pairs) :
        ps[pairs[k][1] + pairs[k][2] + 1].position = ps[pairs[k][1] + 1].position

RECURSIVE IntervalsOver(_, _, _, _)
IntervalsOver(ps, pairs, k, gs) ==
  IF k > Len(pairs) THEN gs
  ELSE LET peak == ps[pairs[k][1] + 1]
           gap == ps[pairs[k][1] + pairs[k][2] + 1].position - peak.position
           group == [tempo |-> GroupTempo(gap), count |-> 1,
                     position |-> peak.position, peaks |-> <<>>]
       IN  IntervalsOver(ps, pairs, k + 1, VoteInto(gs, 1, group, peak))

\* the groups _getIntervals returns, when it returns
GetIntervals(ps) == IntervalsOver(ps, PairsFrom(Len(ps), 0, 1), 1, <<>>)

---------------------------------------------------------------------------
(* _getOffsets.  bpm is a stored tempo, in units of 1 / TempoScale; times  *)
(* are in units of 1 / (sampleRate * bpm) seconds.                         *)

\* 60 / bpm, the beat period
BeatUnits == 60 * TempoScale * sampleRate

\* position / sampleRate
TimeUnits(position, bpm) == position * bpm

\* Math.round((60 / bpm) * 0.05 * sampleRate), in samples (part_001:420)
Correction(bpm) == MathRound(3 * sampleRate * TempoScale, bpm)

\* the inner loop of _getOffsets: the sample itself is the volume, no
\* Math.abs, and "undefined > max.volume" is false (part_001:416-424)
RECURSIVE ScanMono(_, _, _, _, _)
ScanMono(data, j, end, max, bpm) ==
  IF j >= end THEN max
  ELSE IF j >= Len(data) THEN ScanMono(data, j + 1, end, max, bpm)
  ELSE ScanMono(data, j + 1, end,
         IF data[j + 1] > max.volume
           THEN [position |-> j - Correction(bpm), volume |-> data[j + 1]]
           ELSE max,
         bpm)

MonoWindowPeaks(data, bpm) ==
  [i \in 1..NumParts(Len(data)) |->
     ScanMono(data, (i - 1) * partSize, i * partSize,
              [position |-> 0, volume |-> 0], bpm)]

\* "while (offset >= bpmTime) offset -= bpmTime * this._timeSignature"
RECURSIVE LowerOffset(_)
LowerOffset(offset) ==
  IF offset >= BeatUnits THEN LowerOffset(offset - BeatUnits * timeSignature)
  ELSE offset

\* "while (offset < 0) offset += bpmTime"
RECURSIVE RaiseOffset(_)
RaiseOffset(offset) ==
  IF offset < 0 THEN RaiseOffset(offset + BeatUnits) ELSE offset

\* _getLowestTimeOffset (part_001:458-474)
GetLowestTimeOffset(position, bpm) ==
  RaiseOffset(LowerOffset(TimeUnits(position, bpm)))

\* BandTest as a test that only peaks before the reference pass
BandTestStrictlyBelow(offset, refOffset, bpm) == offset < refOffset

\* BandTest as the symmetric |offset - refOffset| < 0.05
BandTestSymmetric(offset, refOffset, bpm) ==
  20 * Abs(offset - refOffset) < sampleRate * bpm

\* 0.05 seconds is sampleRate * bpm / 20 units: x < 0.05 is 20 * x < sampleRate * bpm
BandTest(offset, refOffset, bpm) ==
  \/ 20 * (offset - refOffset) < sampleRate * bpm
  \/ 20 * (refOffset - offset) > -(sampleRate * bpm)

\* the loop of part_001:435-441 over the volume-sorted peaks: every peak's
\* offset and whether it was added to mean
BandLog(sorted, bpm) ==
  LET refOffset == GetLowestTimeOffset(sorted[1].position, bpm)
  IN  [k \in 1..Len(sorted) |->
        LET offset == GetLowestTimeOffset(sorted[k].position, bpm)
        IN  [offset |-> offset, accepted |-> BandTest(offset, refOffset, bpm)]]

RECURSIVE SumAccepted(_, _)
SumAccepted(log, k) ==
  IF k = 0 THEN 0
  ELSE SumAccepted(log, k - 1) + (IF log[k].accepted THEN log[k].offset ELSE 0)

\* "while (unsortedPeaks[i].volume < 0.02) ++i" from 1-based index i; 0 when
\* i runs off the array (unsortedPeaks[i] is undefined: a TypeError)
RECURSIVE FirstLoud(_, _)
FirstLoud(unsorted, i) ==
  IF i > Len(unsorted) THEN 0
  ELSE IF unsorted[i].volume < 2 THEN FirstLoud(unsorted, i + 1)
  ELSE i

\* whether _getOffsets throws: peaks[0] or unsortedPeaks[i] is undefined
OffsetsThrow(data, bpm) ==
  \/ NumParts(Len(data)) = 0
  \/ FirstLoud(MonoWindowPeaks(data, bpm), 1) = 0

\* ClampFirstBar without the test "firstBar < 60 / bpm"
ClampFirstBarAlways(raw, mean, divider) ==
  IF raw * divider > mean THEN <<mean, divider>> ELSE <<raw, 1>>

\* the firstBar _getOffsets returns, as a fraction <<num, den>> of time
\* units (part_001:446-450)
ClampFirstBar(raw, mean, divider) ==
  IF raw * divider > mean /\ raw < BeatUnits
    THEN <<mean, divider>>
    ELSE <<raw, 1>>

\* what _getOffsets computes when it does not throw
GetOffsets(data, bpm) ==
  LET unsorted == MonoWindowPeaks(data, bpm)
      sorted == SortByVolumeDesc(unsorted)
      log == BandLog(sorted, bpm)
      mean == SumAccepted(log, Len(log))
      divider == Cardinality({k \in 1..Len(log) : log[k].accepted})
      raw == TimeUnits(unsorted[FirstLoud(unsorted, 1)].position, bpm)
  IN  [bpm |-> bpm,
       refOffset |-> log[1].offset,
       band |-> log,
       mean |-> mean,
       divider |-> divider,
       rawFirstBar |-> raw,
       offset |-> <<mean, divider>>,
       firstBar |-> ClampFirstBar(raw, mean, divider)]

NoOffsets ==
  [bpm |-> 0, refOffset |-> 0, band |-> <<>>, mean |-> 0, divider |-> 0,
   rawFirstBar |-> 0, offset |-> <<0, 1>>, firstBar |-> <<0, 1>>]

---------------------------------------------------------------------------
(* _processRenderedBuffer *)

\* InsertByCountDesc as an unstable sort would order equal counts: the later
\* group first
RECURSIVE InsertByCountDescTiesLast(_, _)
InsertByCountDescTiesLast(s, x) ==
  IF s = <<>> THEN <<x>>
  ELSE IF Head(s).count > x.count
         THEN <<Head(s)>> \o InsertByCountDescTiesLast(Tail(s), x)
         ELSE <<x>> \o s

\* groups.sort((a, b) => b.count - a.count), a stable sort
RECURSIVE InsertByCountDesc(_, _)
InsertByCountDesc(s, x) ==
  IF s = <<>> THEN <<x>>
  ELSE IF Head(s).count >= x.count
         THEN <<Head(s)>> \o InsertByCountDesc(Tail(s), x)
         ELSE <<x>> \o s

RECURSIVE SortByCountDesc(_)
SortByCountDesc(s) ==
  IF s = <<>> THEN <<>>
  ELSE InsertByCountDesc(SortByCountDesc(SubSeq(s, 1, Len(s) - 1)), s[Len(s)])

\* .splice(0, 5) (part_001:318-320)
Top(gs) ==
  LET sorted == SortByCountDesc(gs)
  IN  SubSeq(sorted, 1, IF Len(sorted) < 5 THEN Len(sorted) ELSE 5)

\* a time of num / den units, in seconds rounded by _floatRound to float
\* digits (part_001:328-329)
RoundSeconds(t, bpm) == FloatRound(t[1], t[2] * sampleRate * bpm, float)

\* how the executor of _processRenderedBuffer ends, given the peaks ps of
\* _getPeaks and the groups gs of _getIntervals: "hung" in the loop of
\* part_001:387, "threw" on top[0] or inside _getOffsets (the promise
\* rejects), or "resolved"
ProcessOutcome(L, ps, gs) ==
  IF IntervalsDiverge(ps) THEN "hung"
  ELSE IF Top(gs) = <<>> THEN "threw"
  ELSE IF OffsetsThrow(L, Top(gs)[1].tempo) THEN "threw"
  ELSE "resolved"

NoBeatInfo == [bpm |-> 0, offset |-> 0, firstBar |-> 0]

---------------------------------------------------------------------------
(* The inputs the model draws *)

\* constructor options (part_001:157-163); the sample rates are even, as
\* 44100 is, so that partSize is a whole number of samples
SampleRates == {2, 4}
Floats == {2}
BpmRanges == {<<90, 180>>, <<60, 120>>, <<100, 150>>}
TimeSignatures == {4}

\* samples of the left channel, in hundredths: below and above the 0.02 of
\* _getOffsets
LeftAmps == {1, 3}
\* the sample of the right channel's one impulse
RightAmps == {-2}

ImpulseBuffer(n, S, a) == [j \in 1..n |-> IF j \in S THEN a[j] ELSE 0]

ImpulseBuffers(n, most, amps) ==
  UNION {{ImpulseBuffer(n, S, a) : a \in [S -> amps]} :
           S \in {T \in SUBSET (1..n) : Cardinality(T) <= most}}

\* a rendered stereo buffer: two channels of one length
RenderedBuffers ==
  UNION {ImpulseBuffers(n, MaxImpulses, LeftAmps) \X ImpulseBuffers(n, 1, RightAmps) :
           n \in 0..MaxLen}

---------------------------------------------------------------------------
(* getBeatInfo: the promise chain of part_001:174-180 *)

\* the outer promise settles on the first resolve or reject only
Settle(how) ==
  /\ promise' = IF promise = "pending" THEN how ELSE promise
  /\ settleCalls' = settleCalls + 1

NoData ==
  /\ UNCHANGED <<dataL, dataR, windowPeaks, peaks, groups, offsets, beatInfo>>

\* getBeatInfo calls _fetchRawTrack, whose executor rejects an options
\* object without a url string and otherwise sends the request
\* (part_001:166-222)
GetBeatInfo(urlOk) ==
  /\ pc = "idle"
  /\ stages' = Append(stages, "fetch")
  /\ IF urlOk
       THEN /\ pc' = "fetching"
            /\ UNCHANGED <<promise, settleCalls, failed>>
       ELSE /\ pc' = "done"
            /\ failed' = "fetch"
            /\ Settle("rejected")
  /\ NoData
  /\ UNCHANGED <<cfgVars, tapVars, ltoVars>>

\* request.onload (part_001:210-218): a 404 rejects, any other status
\* resolves with the request
FetchOnload(status) ==
  /\ pc = "fetching"
  /\ IF status = 404
       THEN /\ pc' = "done"
            /\ failed' = "fetch"
            /\ Settle("rejected")
       ELSE /\ pc' = "fetched"
            /\ UNCHANGED <<promise, settleCalls, failed>>
  /\ UNCHANGED stages
  /\ NoData
  /\ UNCHANGED <<cfgVars, tapVars, ltoVars>>

\* request.onerror = reject (part_001:219)
FetchOnerror ==
  /\ pc = "fetching"
  /\ pc' = "done"
  /\ failed' = "fetch"
  /\ Settle("rejected")
  /\ UNCHANGED stages
  /\ NoData
  /\ UNCHANGED <<cfgVars, tapVars, ltoVars>>

\* .then(_buildOfflineCtx): rejects when the request carries no response,
\* otherwise calls decodeAudioData (part_001:224-249)
BuildOfflineCtx(hasResponse) ==
  /\ pc = "fetched"
  /\ stages' = Append(stages, "render")
  /\ IF hasResponse
       THEN /\ pc' = "decoding"
            /\ UNCHANGED <<promise, settleCalls, failed>>
       ELSE /\ pc' = "done"
            /\ failed' = "render"
            /\ Settle("rejected")
  /\ NoData
  /\ UNCHANGED <<cfgVars, tapVars, ltoVars>>

\* the success callback of decodeAudioData starts the offline rendering
\* (part_001:250-281)
DecodeSuccess ==
  /\ pc = "decoding"
  /\ pc' = "rendering"
  /\ UNCHANGED <<promise, settleCalls, stages, failed>>
  /\ NoData
  /\ UNCHANGED <<cfgVars, tapVars, ltoVars>>

\* the error callback of decodeAudioData (part_001:283-285)
DecodeError ==
  /\ pc = "decoding"
  /\ pc' = "done"
  /\ failed' = "render"
  /\ Settle("rejected")
  /\ UNCHANGED stages
  /\ NoData
  /\ UNCHANGED <<cfgVars, tapVars, ltoVars>>

\* offlineCtx.oncomplete resolves with the rendered buffer (part_001:277-280)
RenderComplete ==
  /\ pc = "rendering"
  /\ pc' = "rendered"
  /\ \E buffer \in RenderedBuffers :
       /\ dataL' = buffer[1]
       /\ dataR' = buffer[2]
  /\ UNCHANGED <<promise, settleCalls, stages, failed>>
  /\ UNCHANGED <<windowPeaks, peaks, groups, offsets, beatInfo>>
  /\ UNCHANGED <<cfgVars, tapVars, ltoVars>>

\* offlineCtx.onerror = reject (part_001:281)
RenderError ==
  /\ pc = "rendering"
  /\ pc' = "done"
  /\ failed' = "render"
  /\ Settle("rejected")
  /\ UNCHANGED stages
  /\ NoData
  /\ UNCHANGED <<cfgVars, tapVars, ltoVars>>

\* .then(_processRenderedBuffer).then(resolve).catch(reject)
\* (part_001:290-338): the executor runs _getPeaks, _getIntervals and
\* _getOffsets; an exception it throws rejects the promise; in the endless
\* loop of _getIntervals nothing is ever settled
ProcessRenderedBuffer ==
  /\ pc = "rendered"
  /\ stages' = Append(stages, "process")
  /\ windowPeaks' = StereoWindowPeaks(dataL, dataR)
  /\ peaks' = FilterPeaks(windowPeaks')
  /\ groups' = IF IntervalsDiverge(peaks') THEN <<>> ELSE GetIntervals(peaks')
  /\ LET outcome == ProcessOutcome(dataL, peaks', groups')
     IN  /\ offsets' = IF outcome = "resolved"
                         THEN GetOffsets(dataL, Top(groups')[1].tempo)
                         ELSE NoOffsets
         /\ beatInfo' = IF outcome = "resolved"
                          THEN [bpm |-> offsets'.bpm,
                                offset |-> RoundSeconds(offsets'.offset, offsets'.bpm),
                                firstBar |-> RoundSeconds(offsets'.firstBar, offsets'.bpm)]
                          ELSE NoBeatInfo
         /\ pc' = IF outcome = "hung" THEN "hung" ELSE "done"
         /\ failed' = IF outcome = "resolved" THEN failed ELSE "process"
         /\ IF outcome = "hung"
              THEN UNCHANGED <<promise, settleCalls>>
              ELSE Settle(IF outcome = "resolved" THEN "resolved" ELSE "rejected")
  /\ UNCHANGED <<dataL, dataR>>
  /\ UNCHANGED <<cfgVars, tapVars, ltoVars>>

---------------------------------------------------------------------------
(* tapBpm: the click handler _tapBpm and its idle-reset timer               *)

\* the delay of window.setTimeout in _tapBpm (part_001:509)
IdleMs == 5000

\* values the callback receives: a BPM num / den, Infinity (a division by
\* 0), the string "--", or nothing yet
NoValue == [kind |-> "none", num |-> 0, den |-> 1]
Sentinel == [kind |-> "sentinel", num |-> 0, den |-> 1]
Infinite == [kind |-> "infinity", num |-> 0, den |-> 1]
Bpm(num, den) == [kind |-> "bpm", num |-> num, den |-> den]

\* options.precision: -1 stands for undefined
Precisions == {-1, 0, 1}

\* ClearTimeout that cancels nothing
ClearTimeoutNothing(id) == timers

\* window.clearTimeout(id): the pending timers without timer id
ClearTimeout(id) == {t \in timers : t.id # id}

\* (60000 * this.count) / (this._ts.current - this._ts.first), rounded by
\* _floatRound when options.precision is given (part_001:493-496)
TapValue(cnt, current, first, precision) ==
  IF current = first THEN Infinite
  ELSE IF precision = -1 THEN Bpm(60000 * cnt, current - first)
  ELSE Bpm(FloatRound(60000 * cnt, current - first, precision), Pow10(precision))

\* whether _tapBpm calls options.callback(bpm) (part_001:492)
TapDelivers(previous) == previous # 0

\* this._ts.first after the test of part_001:488-490
FirstAfterTap(first, current) == IF first = 0 THEN current ELSE first

\* a click at Date.now() = now (part_001:484-510)
Tap(precision) ==
  /\ Len(taps) < MaxTaps
  /\ now + IdleMs + TickMs <= MaxTime
  /\ LET first == FirstAfterTap(ts.first, now)
         delivered == IF TapDelivers(ts.previous)
                        THEN TapValue(count, now, first, precision)
                        ELSE NoValue
     IN  /\ ts' = [current |-> now, previous |-> now, first |-> first]
         /\ lastTap' = [at |-> now, delivered |-> delivered]
         /\ callback' = IF TapDelivers(ts.previous) THEN delivered ELSE callback
  /\ count' = count + 1
  /\ timers' = ClearTimeout(tapResetId) \cup {[id |-> nextTimerId, due |-> now + IdleMs]}
  /\ tapResetId' = nextTimerId
  /\ nextTimerId' = nextTimerId + 1
  /\ taps' = Append(taps, now)
  /\ resets' = 0
  /\ UNCHANGED <<now, lastReset>>
  /\ UNCHANGED <<cfgVars, pipeVars, ltoVars>>

\* TimerFire without "this._ts.first = 0"
TimerFireKeepsFirst ==
  /\ \E t \in timers :
       /\ t.due <= now
       /\ timers' = timers \ {t}
  /\ count' = 0
  /\ ts' = [current |-> 0, previous |-> 0, first |-> ts.first]
  /\ callback' = Sentinel
  /\ taps' = <<>>
  /\ resets' = resets + 1
  /\ lastReset' = [at |-> now, sinceTap |-> now - lastTap.at]
  /\ UNCHANGED <<tapResetId, nextTimerId, now, lastTap>>
  /\ UNCHANGED <<cfgVars, pipeVars, ltoVars>>

\* the callback of setTimeout, run once its delay has passed
\* (part_001:503-509)
TimerFire ==
  /\ \E t \in timers :
       /\ t.due <= now
       /\ timers' = timers \ {t}
  /\ count' = 0
  /\ ts' = [current |-> 0, previous |-> 0, first |-> 0]
  /\ callback' = Sentinel
  /\ taps' = <<>>
  /\ resets' = resets + 1
  /\ lastReset' = [at |-> now, sinceTap |-> now - lastTap.at]
  /\ UNCHANGED <<tapResetId, nextTimerId, now, lastTap>>
  /\ UNCHANGED <<cfgVars, pipeVars, ltoVars>>

\* time passes; a timer that is due may still be waiting for its turn on
\* the event loop
Tick ==
  /\ now + TickMs <= MaxTime
  /\ now' = now + TickMs
  /\ UNCHANGED <<count, ts, tapResetId, timers, nextTimerId,
                 taps, lastTap, callback, resets, lastReset>>
  /\ UNCHANGED <<cfgVars, pipeVars, ltoVars>>

---------------------------------------------------------------------------
(* Initial states *)

CfgInit ==
  /\ sampleRate \in SampleRates
  /\ round \in BOOLEAN
  /\ float \in Floats
  /\ bpmRange \in BpmRanges
  /\ timeSignature \in TimeSignatures

PipeInit ==
  /\ pc = "idle"
  /\ promise = "pending"
  /\ settleCalls = 0
  /\ stages = <<>>
  /\ failed = "none"
  /\ dataL = <<>>
  /\ dataR = <<>>
  /\ windowPeaks = <<>>
  /\ peaks = <<>>
  /\ groups = <<>>
  /\ offsets = NoOffsets
  /\ beatInfo = NoBeatInfo

\* the field initialisers of part_001:127-137
TapFields ==
  /\ count = 0
  /\ ts = [current |-> 0, previous |-> 0, first |-> 0]
  /\ tapResetId = -1
  /\ timers = {}
  /\ nextTimerId = 1
  /\ taps = <<>>
  /\ lastTap = [at |-> -1, delivered |-> NoValue]
  /\ callback = NoValue
  /\ resets = 0
  /\ lastReset = [at |-> -1, sinceTap |-> 0]

\* no call of _getLowestTimeOffset is being followed
LtoIdle ==
  /\ ltoPc = "none"
  /\ ltoPosition = 0
  /\ ltoBpm = 0
  /\ ltoOffset = 0

Init ==
  /\ CfgInit
  /\ PipeInit
  /\ TapFields
  /\ now = 0
  /\ LtoIdle

Next ==
  \/ \E urlOk \in BOOLEAN : GetBeatInfo(urlOk)
  \/ \E status \in {200, 404} : FetchOnload(status)
  \/ FetchOnerror
  \/ \E hasResponse \in BOOLEAN : BuildOfflineCtx(hasResponse)
  \/ DecodeSuccess
  \/ DecodeError
  \/ RenderComplete
  \/ RenderError
  \/ ProcessRenderedBuffer

Spec == Init /\ [][Next]_vars

\* the tap-tempo tracker of an instance built with the default options
DefaultCfg ==
  /\ sampleRate = 44100
  /\ round = FALSE
  /\ float = 8
  /\ bpmRange = <<90, 180>>
  /\ timeSignature = 4

InitTap ==
  /\ DefaultCfg
  /\ PipeInit
  /\ TapFields
  /\ now = 0
  /\ LtoIdle

NextTap ==
  \/ \E precision \in Precisions : Tap(precision)
  \/ TimerFire
  \/ Tick

SpecTap == InitTap /\ [][NextTap]_vars

\* the event loop runs a timer that is due, and time does not stop
SpecTapFair == SpecTap /\ WF_vars(TimerFire) /\ WF_vars(Tick)

---------------------------------------------------------------------------
(* _getLowestTimeOffset, statement by statement (part_001:458-474).  The   *)
(* call is entered with offset = position / sampleRate; times are in units *)
(* of 1 / (sampleRate * bpm) seconds, as in GetLowestTimeOffset.           *)

\* the bpm arguments, in units of 1 / TempoScale: 0.5, 60, 90.5, 120, 600
Bpms == {50, 6000, 9050, 12000, 60000}

\* this._timeSignature (part_001:163)
Signatures == 1..MaxSignature

\* the position arguments: sample positions, and the negative ones the
\* correction of part_001:420 produces
Positions == (-MaxPosition)..MaxPosition

\* "while (offset >= bpmTime) offset -= bpmTime * this._timeSignature": one
\* turn of the loop
LowerStep ==
  /\ ltoPc = "lower"
  /\ ltoOffset >= BeatUnits
  /\ ltoOffset' = ltoOffset - BeatUnits * timeSignature
  /\ UNCHANGED <<ltoPc, ltoPosition, ltoBpm>>
  /\ UNCHANGED <<cfgVars, pipeVars, tapVars>>

\* the first loop ends
LowerExit ==
  /\ ltoPc = "lower"
  /\ ltoOffset < BeatUnits
  /\ ltoPc' = "raise"
  /\ UNCHANGED <<ltoPosition, ltoBpm, ltoOffset>>
  /\ UNCHANGED <<cfgVars, pipeVars, tapVars>>

\* RaiseStep adding a bar, as LowerStep subtracts one
RaiseStepByBar ==
  /\ ltoPc = "raise"
  /\ ltoOffset < 0
  /\ ltoOffset' = ltoOffset + BeatUnits * timeSignature
  /\ UNCHANGED <<ltoPc, ltoPosition, ltoBpm>>
  /\ UNCHANGED <<cfgVars, pipeVars, tapVars>>

\* "while (offset < 0) offset += bpmTime": one turn of the loop
RaiseStep ==
  /\ ltoPc = "raise"
  /\ ltoOffset < 0
  /\ ltoOffset' = ltoOffset + BeatUnits
  /\ UNCHANGED <<ltoPc, ltoPosition, ltoBpm>>
  /\ UNCHANGED <<cfgVars, pipeVars, tapVars>>

\* "return offset"
LtoReturn ==
  /\ ltoPc = "raise"
  /\ ltoOffset >= 0
  /\ ltoPc' = "returned"
  /\ UNCHANGED <<ltoPosition, ltoBpm, ltoOffset>>
  /\ UNCHANGED <<cfgVars, pipeVars, tapVars>>

\* a call _getLowestTimeOffset(position, bpm) on an instance with any sample
\* rate and time signature, entered: offset = firstBeatTime
InitLto ==
  /\ sampleRate \in SampleRates
  /\ round = FALSE
  /\ float \in Floats
  /\ bpmRange = <<90, 180>>
  /\ timeSignature \in Signatures
  /\ PipeInit
  /\ TapFields
  /\ now = 0
  /\ ltoPosition \in Positions
  /\ ltoBpm \in Bpms
  /\ ltoOffset = TimeUnits(ltoPosition, ltoBpm)
  /\ ltoPc = "lower"

NextLto ==
  \/ LowerStep
  \/ LowerExit
  \/ RaiseStep
  \/ LtoReturn

SpecLto == InitLto /\ [][NextLto]_vars

\* the call keeps running: a loop whose test holds takes its next turn
SpecLtoFair == SpecLto /\ WF_vars(NextLto)

---------------------------------------------------------------------------
(* Properties of _getLowestTimeOffset, checked under SpecLtoFair *)

\* the value a returned call hands back is v with 0 <= v < 60 / bpm that
\* differs from position / sampleRate by a whole number of beat periods
LtoReturnsPhase ==
  ltoPc = "returned" =>
    /\ 0 <= ltoOffset
    /\ ltoOffset < BeatUnits
    /\ (ltoOffset - TimeUnits(ltoPosition, ltoBpm)) % BeatUnits = 0
    /\ ltoOffset = GetLowestTimeOffset(ltoPosition, ltoBpm)

\* C12: for every position (negative ones included), bpm > 0 and time
\* signature >= 1, _getLowestTimeOffset terminates, and returns v with
\* 0 <= v < 60 / bpm that differs from position / sampleRate by an integer
\* multiple of 60 / bpm.
C12_LowestTimeOffsetIsPhase ==
  /\ []LtoReturnsPhase
  /\ <>(ltoPc = "returned")

\* a call with a negative position, more than a beat below zero, returned
\* after several turns of the second loop
C12_Witness ==
  /\ ltoPc = "returned"
  /\ ltoPosition < 0
  /\ TimeUnits(ltoPosition, ltoBpm) < -BeatUnits

---------------------------------------------------------------------------
(* Properties of the analysis pipeline, checked under Spec *)

\* _processRenderedBuffer has run on the rendered buffer
Processed == Len(stages) = 3

\* _processRenderedBuffer resolved with a BeatInfo
Resolved == Processed /\ promise = "resolved"

\* C1 as stated: every group's tempo lies in the half-open range
\* bpmRange[0] <= tempo < bpmRange[1].
C1_TempoInHalfOpenRange ==
  \A k \in 1..Len(groups) :
    /\ bpmRange[1] * TempoScale <= groups[k].tempo
    /\ groups[k].tempo < bpmRange[2] * TempoScale

\* C1 as amended: when the range spans at least an octave (2 * min <= max),
\* every group's tempo lies in the closed range min <= tempo <= max; the
\* upper end max itself is stored.
C1_TempoInClosedRange ==
  2 * bpmRange[1] <= bpmRange[2] =>
    \A k \in 1..Len(groups) :
      /\ bpmRange[1] * TempoScale <= groups[k].tempo
      /\ groups[k].tempo <= bpmRange[2] * TempoScale

\* a group whose tempo is exactly the upper end of an octave-wide range
C1_Witness ==
  /\ 2 * bpmRange[1] <= bpmRange[2]
  /\ \E k \in 1..Len(groups) : groups[k].tempo = bpmRange[2] * TempoScale


Silent(data) == \A j \in 1..Len(data) : data[j] = 0

\* C2 as stated: processing a silent stereo buffer ends, and ends in a
\* rejected promise, never in a BeatInfo.
C2_SilentBufferRejected ==
  (Processed /\ Silent(dataL) /\ Silent(dataR)) =>
    (pc = "done" /\ promise = "rejected")

\* C3 as stated: the firstBar _getOffsets returns is below the beat period
\* 60 / bpm.
C3_FirstBarBelowBeat ==
  Resolved => offsets.firstBar[1] < BeatUnits * offsets.firstBar[2]

\* C3 as amended: firstBar is below 60 / bpm when the first peak of volume
\* >= 0.02 lies before 60 / bpm; a later first peak is returned as it is,
\* at or beyond 60 / bpm.
C3_FirstBarClamp ==
  Resolved =>
    IF offsets.rawFirstBar < BeatUnits
      THEN offsets.firstBar[1] < BeatUnits * offsets.firstBar[2]
      ELSE offsets.firstBar = <<offsets.rawFirstBar, 1>>

\* _getOffsets returned a firstBar at or beyond the beat period although the
\* mean offset lies below it
C3_Witness ==
  /\ Resolved
  /\ offsets.rawFirstBar >= BeatUnits
  /\ offsets.rawFirstBar * offsets.divider > offsets.mean
  /\ offsets.firstBar[1] >= BeatUnits * offsets.firstBar[2]

\* the stages getBeatInfo has started are a prefix of fetch, render, process
StagesInOrder ==
  /\ Len(stages) <= 3
  /\ \A k \in 1..Len(stages) : stages[k] = <<"fetch", "render", "process">>[k]

\* C7 as stated: the stages start in order, each after its predecessor's
\* result; after a failed stage no further stage starts, and the promise is
\* rejected, not resolved, by the one settling call.
C7_FailureRejectsOnce ==
  /\ StagesInOrder
  /\ settleCalls <= 1
  /\ failed # "none" =>
       /\ stages[Len(stages)] = failed
       /\ promise = "rejected"
       /\ settleCalls = 1

\* how many of the per-window peaks, or of the kept peaks, are as loud as v
LoudCount(ps, v) == Cardinality({k \in 1..Len(ps) : ps[k].volume >= v})

Min2(a, b) == IF a <= b THEN a ELSE b

\* the kept peaks are per-window peaks, the loudest of them
KeptAreLoudest ==
  /\ \A k \in 1..Len(peaks) :
       Cardinality({j \in 1..Len(peaks) : peaks[j] = peaks[k]})
         <= Cardinality({j \in 1..Len(windowPeaks) : windowPeaks[j] = peaks[k]})
  /\ \A i \in 1..Len(windowPeaks) :
       LoudCount(peaks, windowPeaks[i].volume)
         = Min2(Len(peaks), LoudCount(windowPeaks, windowPeaks[i].volume))

KeptAscending ==
  \A i, j \in 1..Len(peaks) : i < j => peaks[i].position <= peaks[j].position

\* C8 as stated: _getPeaks keeps floor(n / 2) of the n per-window peaks, but
\* one when that is zero and a peak exists; the loudest, ascending by
\* position.
C8_KeepsHalfOrOne ==
  Processed =>
    /\ Len(peaks) = IF Len(windowPeaks) \div 2 = 0 /\ Len(windowPeaks) >= 1
                      THEN 1 ELSE Len(windowPeaks) \div 2
    /\ KeptAreLoudest
    /\ KeptAscending

\* C8 as amended: _getPeaks keeps exactly floor(n / 2) of the n per-window
\* peaks (none of a single one), the loudest, ascending by position.
C8_KeepsHalf ==
  Processed =>
    /\ 2 * Len(peaks) <= Len(windowPeaks)
    /\ 2 * Len(peaks) + 1 >= Len(windowPeaks)
    /\ KeptAreLoudest
    /\ KeptAscending

\* a single window peak of which none is kept, and a filter that drops a
\* quieter peak lying before a kept one
C8_Witness ==
  /\ Processed
  /\ \/ Len(windowPeaks) = 1 /\ peaks = <<>>
     \/ /\ Len(peaks) >= 2
        /\ \E i \in 1..Len(windowPeaks) :
             /\ windowPeaks[i].volume < peaks[1].volume
             /\ windowPeaks[i].position < peaks[1].position
             /\ windowPeaks[i].volume > 0

\* C9 as stated: _getPeaks emits floor(L / W) per-window peaks and reads no
\* sample index >= L.
C9_FloorWindows ==
  Processed =>
    /\ Len(windowPeaks) = Len(dataL) \div partSize
    /\ \A j \in ReadIndices(Len(dataL)) : j < Len(dataL)

\* C9 as amended: _getPeaks emits ceiling(L / W) per-window peaks, one for a
\* trailing partial window too; the loop reads the indices up to the end of
\* the last window, and a peak is never at an index >= L: each is in its
\* window or is the initial {position 0, volume 0}.
C9_CeilingWindows ==
  Processed =>
    /\ Len(windowPeaks) * partSize >= Len(dataL)
    /\ (Len(windowPeaks) - 1) * partSize < Len(dataL)
    /\ ReadIndices(Len(dataL)) = 0..(Len(windowPeaks) * partSize - 1)
    /\ \A i \in 1..Len(windowPeaks) :
         \/ windowPeaks[i] = [position |-> 0, volume |-> 0]
         \/ /\ windowPeaks[i].position >= (i - 1) * partSize
            /\ windowPeaks[i].position < i * partSize
            /\ windowPeaks[i].position < Len(dataL)
            /\ windowPeaks[i].volume > 0

\* a trailing partial window that produced a peak of its own
C9_Witness ==
  /\ Processed
  /\ Len(dataL) % partSize # 0
  /\ windowPeaks[Len(windowPeaks)].volume > 0
  /\ windowPeaks[Len(windowPeaks)].position >= (Len(dataL) \div partSize) * partSize

\* C10 as stated: the band test accepts every offset >= refOffset, and an
\* offset < refOffset only within 0.05 of it.
C10_BandAcceptsAbove ==
  Resolved =>
    \A k \in 1..Len(offsets.band) :
      LET b == offsets.band[k]
      IN  /\ b.offset >= offsets.refOffset => b.accepted
          /\ (b.offset < offsets.refOffset /\ b.accepted) =>
               20 * (offsets.refOffset - b.offset) < sampleRate * offsets.bpm

\* C10 as amended: the band test accepts exactly the offsets below
\* refOffset + 0.05: every offset <= refOffset, however far below, and none
\* at refOffset + 0.05 or more.
C10_BandAcceptsBelow ==
  Resolved =>
    \A k \in 1..Len(offsets.band) :
      LET b == offsets.band[k]
      IN  b.accepted <=> 20 * (b.offset - offsets.refOffset) < sampleRate * offsets.bpm

\* one peak accepted more than 0.05 below refOffset and one rejected above
C10_Witness ==
  /\ Resolved
  /\ \E k \in 1..Len(offsets.band) :
       /\ offsets.band[k].accepted
       /\ 20 * (offsets.refOffset - offsets.band[k].offset) > sampleRate * offsets.bpm
  /\ \E k \in 1..Len(offsets.band) :
       /\ ~offsets.band[k].accepted
       /\ offsets.band[k].offset > offsets.refOffset

\* _processRenderedBuffer reached its call of _getOffsets: _getIntervals
\* returned and top[0] exists
OffsetsCalled == Processed /\ groups # <<>>

\* the log of the step-3 loop of that call, whether or not the call went on
\* to return
CalledBandLog ==
  LET bpm == Top(groups)[1].tempo
  IN  BandLog(SortByVolumeDesc(MonoWindowPeaks(dataL, bpm)), bpm)

\* C13: whenever _getOffsets scans at least one window, the reference (the
\* loudest peak, first of the volume-sorted list) passes the band test
\* against itself, so divider >= 1 after the step-3 loop and mean / divider
\* never divides by zero.
C13_ReferenceAlwaysAccepted ==
  (OffsetsCalled /\ NumParts(Len(dataL)) >= 1) =>
    /\ CalledBandLog[1].accepted
    /\ Cardinality({k \in 1..Len(CalledBandLog) : CalledBandLog[k].accepted}) >= 1
    /\ Resolved => offsets.divider >= 1

\* _getOffsets returned after a step-3 loop that rejected some peaks and
\* accepted the reference
C13_Witness ==
  /\ Resolved
  /\ NumParts(Len(dataL)) >= 2
  /\ offsets.band[1].accepted
  /\ offsets.divider >= 1
  /\ offsets.divider < Len(offsets.band)

\* the groups of maximal vote count, as indices into groups (the order in
\* which _getIntervals created them)
MaxCountGroups ==
  {k \in 1..Len(groups) : \A j \in 1..Len(groups) : groups[j].count <= groups[k].count}

\* C11: the bpm of a resolved BeatInfo is the tempo of a group of maximal
\* vote count, and among the groups sharing the maximal count that of the
\* one _getIntervals created first.
C11_FirstMaxCountGroupChosen ==
  Resolved =>
    \E k \in MaxCountGroups :
      /\ beatInfo.bpm = groups[k].tempo
      /\ \A j \in MaxCountGroups : k <= j

\* several groups share the maximal count, and a resolved run chose among them
C11_Witness ==
  /\ Resolved
  /\ Cardinality(MaxCountGroups) >= 2
  /\ \E k \in MaxCountGroups : beatInfo.bpm = groups[k].tempo

---------------------------------------------------------------------------
(* Properties of the tap-tempo tracker, checked under SpecTap and          *)
(* SpecTapFair                                                             *)

\* the taps of the session are t0, t0 + P, t0 + 2P, ... with 0 < P < IdleMs
PeriodicTaps ==
  /\ taps # <<>>
  /\ \A k \in 1..(Len(taps) - 1) :
       /\ taps[k + 1] - taps[k] = taps[2] - taps[1]
       /\ taps[k + 1] - taps[k] > 0
       /\ taps[k + 1] - taps[k] < IdleMs

\* C4 as stated: in a fresh session of taps at t0, t0 + P, t0 + 2P, ...
\* (t0 >= 0) the first tap delivers nothing and every later tap delivers the
\* BPM 60000 / P, rounded when a precision is configured.
C4_PeriodicTapsDeliverBpm ==
  PeriodicTaps =>
    IF Len(taps) = 1
      THEN lastTap.delivered = NoValue
      ELSE LET P == taps[2] - taps[1]
               d == lastTap.delivered
           IN  /\ d.kind = "bpm"
               /\ \/ d.num * P = 60000 * d.den
                  \/ \E p \in Precisions \ {-1} :
                       d = Bpm(FloatRound(60000, P, p), Pow10(p))

\* the session state after an idle reset
Zeroed ==
  /\ count = 0
  /\ ts = [current |-> 0, previous |-> 0, first |-> 0]
  /\ timers = {}
  /\ callback = Sentinel
  /\ taps = <<>>

\* C5: once a tap has armed the idle timer and no further tap comes, the
\* idle reset fires, and fires once: the callback gets "--" and count and
\* the three timestamps are zero, as before the first tap.
C5_IdleResetFiresOnce ==
  /\ [](resets <= 1 /\ (resets = 1 => Zeroed))
  /\ (timers # {}) ~> (resets = 1)

\* the reset that followed a session of two taps or more
C5_Witness ==
  /\ resets = 1
  /\ Zeroed
  /\ nextTimerId >= 3
  /\ lastReset.sinceTap >= IdleMs

\* C6: at most one idle-reset timer is pending, the one the last tap armed,
\* and a reset fires no sooner than IdleMs after the most recent tap.
C6_OneTimerNoEarlyReset ==
  /\ Cardinality(timers) <= 1
  /\ \A t \in timers : t.id = tapResetId /\ t.due = lastTap.at + IdleMs
  /\ lastReset.at >= 0 => lastReset.sinceTap >= IdleMs

\* a tap re-armed the timer of an earlier tap, and later a reset fired
C6_Witness ==
  /\ lastReset.at >= 0
  /\ lastReset.sinceTap < lastReset.at
  /\ timers # {}

===========================================================================
